---- MODULE Spec2Model ----
(***************************************************************************)
(* A model of inotify/adapters.py: the watch registry and the event        *)
(* decoder of class Inotify, the generator Inotify.event_gen, and the      *)
(* recursive tree classes built on it.                                     *)
(*                                                                         *)
(* Representation.  A byte is a number 0..255 and a byte string a sequence *)
(* of bytes.  A text string is the sequence of its code points.  A path is *)
(* the sequence of its components, so os.path.join(path, name) is          *)
(* Append(path, name); a trailing empty component is a trailing slash.     *)
(* A Python dict is a function with a finite domain.                       *)
(***************************************************************************)
EXTENDS Integers, Sequences, FiniteSets, TLC

VARIABLES
    watches,      \* Inotify.__watches: path -> wd
    watches_r,    \* Inotify.__watches_r: wd -> path
    buffer,       \* Inotify.__buffer: bytes read and not yet consumed
    last_success_return,   \* Inotify.__last_success_return
    dirs,         \* file system: the directories that exist (canonical paths)
    kwatch,       \* kernel: directory -> [wd, mask] of its watch
    nextWd,       \* kernel: the next watch descriptor it hands out
    queue,        \* kernel: the records queued on the descriptor, unread
    lastOp,       \* the last registry call and what it did
    dupId,        \* the kernel returned an id registered under another path
    emitted,      \* how many records or file-system changes the environment made
    pc,           \* event_gen: where the generator stands
    opts,         \* event_gen: the arguments of the call
    elapsed,      \* event_gen: time.time() - last_hit_s, capped at ElapsedCap
    why,          \* event_gen: why the generator returned
    raised,       \* event_gen: the exception that ended the generator
    cur,          \* the event the handler yielded last in this call
    hist,         \* the records consumed in this call and what became of each
    sinceEvent,   \* the time since the handler last yielded an event, capped
    iterEvents,   \* the events yielded to the consumer in this loop iteration
    stream,       \* decoder harness: the bytes the descriptor will deliver
    pos,          \* decoder harness: how many bytes of stream were read
    out,          \* decoder harness: the events the handler yielded, in order
    split         \* decoder harness: a read ended inside a record

regVars == <<watches, watches_r>>
kernelVars == <<kwatch, nextWd, queue>>
decVars == <<stream, pos, out, split>>
genVars == <<pc, opts, elapsed, why, raised, cur, hist, sinceEvent, iterEvents>>
vars == <<watches, watches_r, buffer, last_success_return, dirs, kwatch, nextWd,
          queue, lastOp, dupId, emitted, pc, opts, elapsed, why, raised, cur, hist,
          sinceEvent, iterEvents, stream, pos, out, split>>

(***************************************************************************)
(* Bounds of the model.                                                    *)
(***************************************************************************)
MaxRecords == 2      \* records in one decoder input stream
MaxEmit == 2         \* records the environment injects into the queue
MaxWd == 2           \* watch descriptors the kernel hands out to registry calls
MaxTimeout == 1      \* the largest timeout_s of a call
MaxFsOps == 3        \* changes of the directory tree under a watched root

(***************************************************************************)
(* Program constants.                                                      *)
(***************************************************************************)
_STRUCT_HEADER_LENGTH == 16      \* struct.calcsize("iIII")
READ_SIZE == 1024                \* os.read(wd, 1024)

\* inotify.constants: the event bits of <sys/inotify.h>
IN_MODIFY == 2
IN_MOVED_FROM == 64
IN_MOVED_TO == 128
IN_CREATE == 256
IN_DELETE == 512
IN_UNMOUNT == 8192
IN_Q_OVERFLOW == 16384
IN_IGNORED == 32768
IN_ISDIR == 1073741824
IN_ALL_EVENTS == 4095

_DEFAULT_TERMINAL_EVENTS == {"IN_Q_OVERFLOW", "IN_UNMOUNT"}

\* mask & bit, for a single bit
HasBit(mask, bit) == (mask \div bit) % 2 = 1

\* The rows of inotify.constants.MASK_LOOKUP the model uses, in bit order.
MASK_LOOKUP ==
    << <<IN_MODIFY, "IN_MODIFY">>, <<IN_MOVED_FROM, "IN_MOVED_FROM">>,
       <<IN_MOVED_TO, "IN_MOVED_TO">>, <<IN_CREATE, "IN_CREATE">>,
       <<IN_DELETE, "IN_DELETE">>, <<IN_UNMOUNT, "IN_UNMOUNT">>,
       <<IN_Q_OVERFLOW, "IN_Q_OVERFLOW">>, <<IN_IGNORED, "IN_IGNORED">>,
       <<IN_ISDIR, "IN_ISDIR">> >>

RECURSIVE MaskRest(_, _)
\* what is left of mask once the bits of rows i.. of MASK_LOOKUP are taken out
MaskRest(mask, i) ==
    IF i > Len(MASK_LOOKUP) THEN mask
    ELSE MaskRest(IF HasBit(mask, MASK_LOOKUP[i][1])
                  THEN mask - MASK_LOOKUP[i][1] ELSE mask, i + 1)

RECURSIVE MaskNames(_, _)
MaskNames(mask, i) ==
    IF i > Len(MASK_LOOKUP) THEN <<>>
    ELSE (IF HasBit(mask, MASK_LOOKUP[i][1]) THEN <<MASK_LOOKUP[i][2]>> ELSE <<>>)
         \o MaskNames(mask, i + 1)

\* Inotify._get_event_names: the names of the mask's bits; a mask with a bit
\* outside the table (or no bit at all) is the KeyError that becomes an
\* AssertionError, here the value "AssertionError".
_get_event_names(event_type) ==
    IF event_type = 0 \/ MaskRest(event_type, 1) # 0 THEN "AssertionError"
    ELSE MaskNames(event_type, 1)

(***************************************************************************)
(* The wire format: struct "iIII" in little-endian byte order.             *)
(***************************************************************************)
PackU32(n) ==
    <<n % 256, (n \div 256) % 256, (n \div 65536) % 256, (n \div 16777216) % 256>>

\* a signed 32-bit field in two's complement
PackI32(n) ==
    IF n >= 0 THEN PackU32(n)
    ELSE [i \in 1..4 |-> 255 - PackU32(-(n + 1))[i]]

UnpackU32(b) == b[1] + 256 * b[2] + 65536 * b[3] + 16777216 * b[4]

UnpackI32(b) ==
    IF b[4] < 128 THEN UnpackU32(b)
    ELSE -(UnpackU32([i \in 1..4 |-> 255 - b[i]])) - 1

\* struct.unpack("iIII", peek_slice) as _INOTIFY_EVENT(wd, mask, cookie, len)
Unpack(peek_slice) ==
    [wd     |-> UnpackI32(SubSeq(peek_slice, 1, 4)),
     mask   |-> UnpackU32(SubSeq(peek_slice, 5, 8)),
     cookie |-> UnpackU32(SubSeq(peek_slice, 9, 12)),
     len    |-> UnpackU32(SubSeq(peek_slice, 13, 16))]

RECURSIVE RStripNul(_)
\* filename.rstrip(b"\0")
RStripNul(s) ==
    IF s = <<>> \/ s[Len(s)] # 0 THEN s ELSE RStripNul(SubSeq(s, 1, Len(s) - 1))

RECURSIVE Utf8Decode(_)
\* bytes.decode("utf8") for one- and two-byte sequences; anything else is the
\* UnicodeDecodeError, here a sequence holding -1
Utf8Decode(b) ==
    IF b = <<>> THEN <<>>
    ELSE IF b[1] < 128 THEN <<b[1]>> \o Utf8Decode(Tail(b))
    ELSE IF b[1] >= 194 /\ b[1] < 224 /\ Len(b) >= 2 /\ b[2] >= 128 /\ b[2] < 192
         THEN <<(b[1] - 192) * 64 + (b[2] - 128)>> \o Utf8Decode(Tail(Tail(b)))
    ELSE <<-1>>

HandleStep_ConsumeHeader(buf, wr) ==
    LET length == Len(buf) IN
    IF length < _STRUCT_HEADER_LENGTH
    THEN [kind |-> "return", buf |-> buf]
    ELSE
    LET header == Unpack(SubSeq(buf, 1, _STRUCT_HEADER_LENGTH))
        type_names == _get_event_names(header.mask)
        event_length == _STRUCT_HEADER_LENGTH + header.len
    IN
    IF type_names = "AssertionError"
    THEN [kind |-> "assert", buf |-> buf]
    ELSE IF length < event_length
    THEN [kind |-> "return", buf |-> SubSeq(buf, _STRUCT_HEADER_LENGTH + 1, length)]
    ELSE
    LET filename == SubSeq(buf, _STRUCT_HEADER_LENGTH + 1, event_length)
        filename_bytes == RStripNul(filename)
        rest == SubSeq(buf, event_length + 1, length)
    IN
    IF header.wd \in DOMAIN wr
    THEN [kind |-> "yield", buf |-> rest, header |-> header,
          event |-> [header |-> header, type_names |-> type_names,
                     path |-> wr[header.wd],
                     filename |-> Utf8Decode(filename_bytes)]]
    ELSE [kind |-> "drop", buf |-> rest, header |-> header]

HandleStep_StopAtUnknown(buf, wr) ==
    LET length == Len(buf) IN
    IF length < _STRUCT_HEADER_LENGTH
    THEN [kind |-> "return", buf |-> buf]
    ELSE
    LET header == Unpack(SubSeq(buf, 1, _STRUCT_HEADER_LENGTH))
        type_names == _get_event_names(header.mask)
        event_length == _STRUCT_HEADER_LENGTH + header.len
    IN
    IF type_names = "AssertionError"
    THEN [kind |-> "assert", buf |-> buf]
    ELSE IF length < event_length
    THEN [kind |-> "return", buf |-> buf]
    ELSE
    LET filename == SubSeq(buf, _STRUCT_HEADER_LENGTH + 1, event_length)
        filename_bytes == RStripNul(filename)
        rest == SubSeq(buf, event_length + 1, length)
    IN
    IF header.wd \in DOMAIN wr
    THEN [kind |-> "yield", buf |-> rest, header |-> header,
          event |-> [header |-> header, type_names |-> type_names,
                     path |-> wr[header.wd],
                     filename |-> Utf8Decode(filename_bytes)]]
    ELSE [kind |-> "return", buf |-> rest]

(***************************************************************************)
(* Inotify._handle_inotify_event, lines 150-185: one turn of its loop on   *)
(* the buffer buf with the registry wr.                                    *)
(*   "return"  not enough bytes for a header or for the record: the        *)
(*             generator ends and the buffer is kept                       *)
(*   "assert"  _get_event_names raised                                     *)
(*   "yield"   a record was consumed and its event is yielded              *)
(*   "drop"    a record was consumed and its wd is not in the registry     *)
(***************************************************************************)
HandleStep(buf, wr) ==
    LET length == Len(buf) IN
    IF length < _STRUCT_HEADER_LENGTH
    THEN [kind |-> "return", buf |-> buf]
    ELSE
    LET header == Unpack(SubSeq(buf, 1, _STRUCT_HEADER_LENGTH))
        type_names == _get_event_names(header.mask)
        event_length == _STRUCT_HEADER_LENGTH + header.len
    IN
    IF type_names = "AssertionError"
    THEN [kind |-> "assert", buf |-> buf]
    ELSE IF length < event_length
    THEN [kind |-> "return", buf |-> buf]
    ELSE
    LET filename == SubSeq(buf, _STRUCT_HEADER_LENGTH + 1, event_length)
        filename_bytes == RStripNul(filename)
        rest == SubSeq(buf, event_length + 1, length)
    IN
    IF header.wd \in DOMAIN wr
    THEN [kind |-> "yield", buf |-> rest, header |-> header,
          event |-> [header |-> header, type_names |-> type_names,
                     path |-> wr[header.wd],
                     filename |-> Utf8Decode(filename_bytes)]]
    ELSE [kind |-> "drop", buf |-> rest, header |-> header]

RECURSIVE HandlerRun(_, _, _)
\* The loop from its top to the next yield or to the generator's end.
\* dropped collects the headers of the records consumed without a yield.
HandlerRun(buf, wr, dropped) ==
    LET s == HandleStep(buf, wr) IN
    CASE s.kind = "return" -> [status |-> "end", buf |-> s.buf, dropped |-> dropped]
      [] s.kind = "assert" -> [status |-> "assert", buf |-> s.buf, dropped |-> dropped]
      [] s.kind = "yield"  -> [status |-> "yield", buf |-> s.buf, dropped |-> dropped,
                               event |-> s.event]
      [] s.kind = "drop"   ->
            \* lines 183-185
            IF Len(s.buf) < _STRUCT_HEADER_LENGTH
            THEN [status |-> "end", buf |-> s.buf,
                  dropped |-> Append(dropped, s.header)]
            ELSE HandlerRun(s.buf, wr, Append(dropped, s.header))

\* The generator is resumed after its yield: lines 183-185, then the loop.
HandlerResume(buf, wr) ==
    IF Len(buf) < _STRUCT_HEADER_LENGTH
    THEN [status |-> "end", buf |-> buf, dropped |-> <<>>]
    ELSE HandlerRun(buf, wr, <<>>)

HandlerStart_Overwrite(buf, b, wr) ==
    IF b = <<>>
    THEN [status |-> "end", buf |-> buf, dropped |-> <<>>]
    ELSE HandlerRun(b, wr, <<>>)

\* The generator is started with b, the bytes os.read returned: lines 144-148.
HandlerStart(buf, b, wr) ==
    IF b = <<>>
    THEN [status |-> "end", buf |-> buf, dropped |-> <<>>]
    ELSE HandlerRun(buf \o b, wr, <<>>)

RECURSIVE HandlerDrain(_, _, _)
\* A consumer that takes every event of a started generator: the events in
\* order and the buffer left.  r is the generator's state at its last stop.
HandlerDrain(r, wr, events) ==
    IF r.status = "yield"
    THEN HandlerDrain(HandlerResume(r.buf, wr), wr, Append(events, r.event))
    ELSE [status |-> r.status, buf |-> r.buf, events |-> events]

\* list(self._handle_inotify_event(fd)) when os.read returns b
HandleAll(buf, b, wr) == HandlerDrain(HandlerStart(buf, b, wr), wr, <<>>)

(***************************************************************************)
(* The kernel's side of the wire: a record as the kernel writes it.        *)
(***************************************************************************)
NameA == <<65>>
NameB == <<66>>
RootPath == <<<<114>>>>

\* the name field: the name, a NUL, and NULs up to a multiple of the header size
NameField(name) ==
    IF name = <<>> THEN <<>>
    ELSE name \o [i \in 1..(_STRUCT_HEADER_LENGTH - (Len(name) % _STRUCT_HEADER_LENGTH))
                    |-> 0]

KernelRecord(wd, mask, cookie, name) ==
    PackI32(wd) \o PackU32(mask) \o PackU32(cookie)
        \o PackU32(Len(NameField(name))) \o NameField(name)

RECURSIVE Flatten(_)
Flatten(ss) == IF ss = <<>> THEN <<>> ELSE Head(ss) \o Flatten(Tail(ss))

\* the records a decoder input is made of
DecoderRecords ==
    { KernelRecord(1, IN_CREATE + IN_ISDIR, 0, NameA),
      KernelRecord(2, IN_MODIFY, 0, NameB),
      KernelRecord(-1, IN_Q_OVERFLOW, 0, <<>>),
      KernelRecord(2, IN_IGNORED, 0, <<>>) }

SeqsUpTo(S, n) == UNION { [1..k -> S] : k \in 0..n }

DecoderRegistries ==
    { (1 :> RootPath), (1 :> RootPath) @@ (2 :> Append(RootPath, NameA)) }

(***************************************************************************)
(* The kernel and the file system, as the calls of inotify.calls see them. *)
(* st is the state a call works on: the registry, the kernel's tables and  *)
(* what the call did (exc, the exception it raised; kcalls, the kernel     *)
(* calls it made; ret, what the kernel returned; dup, whether the kernel   *)
(* returned an id the registry holds for another path).                    *)
(***************************************************************************)
DictSet(d, k, v) == [x \in DOMAIN d \cup {k} |-> IF x = k THEN v ELSE d[x]]
DictDel(d, k) == [x \in DOMAIN d \ {k} |-> d[x]]

\* the directory a path names: empty components (a doubled or trailing
\* slash) name nothing
Canon(path) == SelectSeq(path, LAMBDA c : c # <<>>)

RECURSIVE Utf8Encode(_)
\* str.encode("utf8") for code points below 2048
Utf8Encode(u) ==
    IF u = <<>> THEN <<>>
    ELSE (IF u[1] < 128 THEN <<u[1]>>
          ELSE <<192 + (u[1] \div 64), 128 + (u[1] % 64)>>) \o Utf8Encode(Tail(u))

EncodePath(path_unicode) == [i \in 1..Len(path_unicode) |-> Utf8Encode(path_unicode[i])]

KernelWds(kw) == { kw[d].wd : d \in DOMAIN kw }

\* inotify_add_watch(fd, path_bytes, mask): the id of the directory's watch,
\* a new one when it has none; InotifyError when the path names no directory
inotify_add_watch(st, path_bytes, mask) ==
    LET d == Canon(path_bytes) IN
    IF d \notin st.dirs
    THEN [st EXCEPT !.exc = "InotifyError",
                    !.kcalls = Append(@, [call |-> "add_watch", wd |-> 0])]
    ELSE LET wd == IF d \in DOMAIN st.kwatch THEN st.kwatch[d].wd ELSE st.nextWd IN
         [st EXCEPT !.kwatch = DictSet(@, d, [wd |-> wd, mask |-> mask]),
                    !.nextWd = IF d \in DOMAIN st.kwatch THEN @ ELSE @ + 1,
                    !.ret = wd,
                    !.kcalls = Append(@, [call |-> "add_watch", wd |-> wd])]

\* inotify_rm_watch(fd, wd): the watch is removed and the kernel queues its
\* IN_IGNORED; InotifyError when the kernel holds no such watch
inotify_rm_watch(st, wd) ==
    IF wd \notin KernelWds(st.kwatch)
    THEN [st EXCEPT !.exc = "InotifyError",
                    !.kcalls = Append(@, [call |-> "rm_watch", wd |-> wd])]
    ELSE [st EXCEPT !.kwatch = DictDel(@, CHOOSE d \in DOMAIN @ : @[d].wd = wd),
                    !.queue = Append(@, KernelRecord(wd, IN_IGNORED, 0, <<>>)),
                    !.kcalls = Append(@, [call |-> "rm_watch", wd |-> wd])]

(***************************************************************************)
(* The watch registry: Inotify.add_watch, _remove_watch, remove_watch and  *)
(* remove_watch_with_id.  superficial is "False", "True" or "None".        *)
(***************************************************************************)
add_watch_NoCheck(st, path_unicode, mask) ==
    LET k == inotify_add_watch(st, EncodePath(path_unicode), mask) IN
    IF k.exc # "none" THEN k
    ELSE [k EXCEPT !.watches = DictSet(@, path_unicode, k.ret),
                   !.watches_r = DictSet(@, k.ret, path_unicode),
                   !.dup = @ \/ k.ret \in DOMAIN st.watches_r]

add_watch(st, path_unicode, mask) ==
    IF path_unicode \in DOMAIN st.watches
    THEN st
    ELSE LET k == inotify_add_watch(st, EncodePath(path_unicode), mask) IN
         IF k.exc # "none" THEN k
         ELSE [k EXCEPT !.watches = DictSet(@, path_unicode, k.ret),
                        !.watches_r = DictSet(@, k.ret, path_unicode),
                        !.dup = @ \/ k.ret \in DOMAIN st.watches_r]

_remove_watch_KeepReverse(st, wd, path, superficial) ==
    LET s1 == IF superficial = "None" THEN st
              ELSE IF path \notin DOMAIN st.watches
              THEN [st EXCEPT !.exc = "KeyError"]
              ELSE [st EXCEPT !.watches = DictDel(@, path)]
    IN  IF s1.exc # "none" \/ superficial # "False" THEN s1
        ELSE inotify_rm_watch(s1, wd)

_remove_watch(st, wd, path, superficial) ==
    LET s1 == IF superficial = "None" THEN st
              ELSE IF path \notin DOMAIN st.watches
              THEN [st EXCEPT !.exc = "KeyError"]
              ELSE IF wd \notin DOMAIN st.watches_r
              THEN [st EXCEPT !.watches = DictDel(@, path), !.exc = "KeyError"]
              ELSE [st EXCEPT !.watches = DictDel(@, path),
                              !.watches_r = DictDel(@, wd)]
    IN  IF s1.exc # "none" \/ superficial # "False" THEN s1
        ELSE inotify_rm_watch(s1, wd)

remove_watch(st, path, superficial) ==
    IF path \notin DOMAIN st.watches
    THEN st
    ELSE _remove_watch(st, st.watches[path], path, superficial)

remove_watch_with_id(st, wd, superficial) ==
    IF wd \notin DOMAIN st.watches_r
    THEN st
    ELSE _remove_watch(st, wd, st.watches_r[wd], superficial)

\* the state a call starts from
Now ==
    [watches |-> watches, watches_r |-> watches_r, dirs |-> dirs,
     kwatch |-> kwatch, nextWd |-> nextWd, queue |-> queue,
     exc |-> "none", kcalls |-> <<>>, ret |-> 0, dup |-> FALSE]

\* the state a call leaves
Becomes(st) ==
    /\ watches' = st.watches
    /\ watches_r' = st.watches_r
    /\ kwatch' = st.kwatch
    /\ nextWd' = st.nextWd
    /\ queue' = st.queue
    /\ dupId' = (dupId \/ st.dup)

(***************************************************************************)
(* _BaseTree.event_gen, lines 294-350: what the tree does with an event    *)
(* of the inner generator before it yields it.                             *)
(***************************************************************************)
PathExists(st, full_path) == Canon(EncodePath(full_path)) \in st.dirs

TreeHandle_NoDelete(st, event, ignore_missing_new_folders, mask) ==
    IF ~HasBit(event.header.mask, IN_ISDIR) THEN st
    ELSE
    LET full_path == Append(event.path, event.filename)
        m == event.header.mask
    IN
    IF (HasBit(m, IN_MOVED_TO) \/ HasBit(m, IN_CREATE))
       /\ (PathExists(st, full_path) \/ ignore_missing_new_folders = FALSE)
    THEN add_watch(st, full_path, mask)
    ELSE st

TreeHandle_AlwaysAdd(st, event, ignore_missing_new_folders, mask) ==
    IF ~HasBit(event.header.mask, IN_ISDIR) THEN st
    ELSE
    LET full_path == Append(event.path, event.filename)
        m == event.header.mask
        s1 == IF HasBit(m, IN_MOVED_TO) \/ HasBit(m, IN_CREATE)
              THEN add_watch(st, full_path, mask)
              ELSE st
    IN
    IF s1.exc # "none" THEN s1
    ELSE IF HasBit(m, IN_DELETE) THEN remove_watch(s1, full_path, "True")
    ELSE IF HasBit(m, IN_MOVED_FROM)
    THEN LET s2 == remove_watch(s1, full_path, "False") IN
         IF s2.exc = "InotifyError" THEN [s2 EXCEPT !.exc = "none"] ELSE s2
    ELSE s1

TreeHandle_NoSwallow(st, event, ignore_missing_new_folders, mask) ==
    IF ~HasBit(event.header.mask, IN_ISDIR) THEN st
    ELSE
    LET full_path == Append(event.path, event.filename)
        m == event.header.mask
        s1 == IF (HasBit(m, IN_MOVED_TO) \/ HasBit(m, IN_CREATE))
                 /\ (PathExists(st, full_path) \/ ignore_missing_new_folders = FALSE)
              THEN add_watch(st, full_path, mask)
              ELSE st
    IN
    IF s1.exc # "none" THEN s1
    ELSE IF HasBit(m, IN_DELETE) THEN remove_watch(s1, full_path, "True")
    ELSE IF HasBit(m, IN_MOVED_FROM) THEN remove_watch(s1, full_path, "False")
    ELSE s1

TreeHandle_DeleteFull(st, event, ignore_missing_new_folders, mask) ==
    IF ~HasBit(event.header.mask, IN_ISDIR) THEN st
    ELSE
    LET full_path == Append(event.path, event.filename)
        m == event.header.mask
        s1 == IF (HasBit(m, IN_MOVED_TO) \/ HasBit(m, IN_CREATE))
                 /\ (PathExists(st, full_path) \/ ignore_missing_new_folders = FALSE)
              THEN add_watch(st, full_path, mask)
              ELSE st
    IN
    IF s1.exc # "none" THEN s1
    ELSE IF HasBit(m, IN_DELETE) \/ HasBit(m, IN_MOVED_FROM)
    THEN LET s2 == remove_watch(s1, full_path, "False") IN
         IF s2.exc = "InotifyError" THEN [s2 EXCEPT !.exc = "none"] ELSE s2
    ELSE s1

TreeHandle(st, event, ignore_missing_new_folders, mask) ==
    IF ~HasBit(event.header.mask, IN_ISDIR) THEN st
    ELSE
    LET full_path == Append(event.path, event.filename)
        m == event.header.mask
        s1 == IF (HasBit(m, IN_MOVED_TO) \/ HasBit(m, IN_CREATE))
                 /\ (PathExists(st, full_path) \/ ignore_missing_new_folders = FALSE)
              THEN add_watch(st, full_path, mask)
              ELSE st
    IN
    IF s1.exc # "none" THEN s1
    ELSE IF HasBit(m, IN_DELETE) THEN remove_watch(s1, full_path, "True")
    ELSE IF HasBit(m, IN_MOVED_FROM)
    THEN LET s2 == remove_watch(s1, full_path, "False") IN
         IF s2.exc = "InotifyError" THEN [s2 EXCEPT !.exc = "none"] ELSE s2
    ELSE s1

(***************************************************************************)
(* Inotify.event_gen.  The generator stands at                             *)
(*   "none"         no generator was made yet                              *)
(*   "poll"         blocked in self.__epoll.poll (line 210)                *)
(*   "yield_event"  suspended at yield e (line 246; for a tree, line 352)  *)
(*   "yield_none"   suspended at yield None (line 254)                     *)
(*   "done"         returned (why: "timeout" or "filter")                  *)
(*   "raised"       ended by the exception in raised                       *)
(*   "closed"       dropped by its consumer while suspended                *)
(* None is <<>>; timeout_s is <<>> or <<T>>; last_success_return is <<>>   *)
(* or <<type_name, e>>; filter_predicate is not given, or returns False    *)
(* exactly for the kinds in stop.                                          *)
(***************************************************************************)
None == <<>>
NoException == [exc |-> "none", args |-> <<>>]

GenInit ==
    /\ pc = "none"
    /\ opts = [timeout_s |-> None, yield_nones |-> TRUE,
               filter_predicate |-> [given |-> FALSE, stop |-> {}],
               terminal_events |-> _DEFAULT_TERMINAL_EVENTS,
               tree |-> FALSE, ignore_missing_new_folders |-> FALSE, mask |-> 0]
    /\ elapsed = 0
    /\ why = ""
    /\ raised = NoException
    /\ cur = None
    /\ hist = <<>>
    /\ sinceEvent = 0
    /\ iterEvents = 0

\* filter_predicate(type_name, e) is False
FilterStops(fp, type_name, e) == fp.given /\ type_name \in fp.stop

RECURSIVE Classify_TerminalFirst(_, _, _, _)
Classify_TerminalFirst(e, i, fp, terminal_events) ==
    IF i > Len(e.type_names) THEN [verdict |-> "yield", type_name |-> ""]
    ELSE IF e.type_names[i] \in terminal_events
    THEN [verdict |-> "terminal", type_name |-> e.type_names[i]]
    ELSE IF FilterStops(fp, e.type_names[i], e)
    THEN [verdict |-> "filter", type_name |-> e.type_names[i]]
    ELSE Classify_TerminalFirst(e, i + 1, fp, terminal_events)

RECURSIVE Classify(_, _, _, _)
\* lines 236-244: the kinds of e in the order of type_names, from the i-th on
Classify(e, i, fp, terminal_events) ==
    IF i > Len(e.type_names) THEN [verdict |-> "yield", type_name |-> ""]
    ELSE IF FilterStops(fp, e.type_names[i], e)
    THEN [verdict |-> "filter", type_name |-> e.type_names[i]]
    ELSE IF e.type_names[i] \in terminal_events
    THEN [verdict |-> "terminal", type_name |-> e.type_names[i]]
    ELSE Classify(e, i + 1, fp, terminal_events)

\* lines 215-218 and 248-251
TimedOut(o, el) == o.timeout_s # None /\ el > o.timeout_s[1]

Dropped(headers) == [i \in 1..Len(headers) |-> [header |-> headers[i], disp |-> "dropped"]]

\* line 233: last_hit_s = time.time(), for the event e the handler yielded
Hit_NoReset(g, e) == [g EXCEPT !.sinceEvent = 0, !.cur = <<e>>]

Hit(g, e) == [g EXCEPT !.elapsed = 0, !.sinceEvent = 0, !.cur = <<e>>]

\* lines 248-254: the for loops of an iteration are over
EndOfIteration_IdleOnly(g) ==
    IF TimedOut(g.opts, g.elapsed)
    THEN [g EXCEPT !.pc = "done", !.why = "timeout"]
    ELSE IF g.opts.yield_nones = TRUE /\ g.iterEvents = 0
    THEN [g EXCEPT !.pc = "yield_none"]
    ELSE [g EXCEPT !.pc = "poll", !.iterEvents = 0]

EndOfIteration(g) ==
    IF TimedOut(g.opts, g.elapsed)
    THEN [g EXCEPT !.pc = "done", !.why = "timeout"]
    ELSE IF g.opts.yield_nones = TRUE
    THEN [g EXCEPT !.pc = "yield_none"]
    ELSE [g EXCEPT !.pc = "poll", !.iterEvents = 0]

\* The generator's variables, and in g.st the registry and the kernel, after
\* the generator ran from a stop of the handler (r) to its own next stop.
\* g holds them before.
Deliver(g, r) ==
    LET g0 == [g EXCEPT !.buffer = r.buf, !.hist = @ \o Dropped(r.dropped)] IN
    CASE r.status = "assert" ->
            [g0 EXCEPT !.pc = "raised",
                       !.raised = [exc |-> "AssertionError", args |-> <<>>]]
      [] r.status = "end" -> EndOfIteration(g0)
      [] r.status = "yield" ->
            LET e == r.event
                c == Classify(e, 1, g.opts.filter_predicate, g.opts.terminal_events)
                g1 == Hit(g0, e)
                entry(d) == [header |-> e.header, disp |-> d]
            IN
            CASE c.verdict = "filter" ->
                    [g1 EXCEPT !.pc = "done", !.why = "filter",
                               !.last_success_return = <<c.type_name, e>>,
                               !.hist = Append(@, entry("filter"))]
              [] c.verdict = "terminal" ->
                    [g1 EXCEPT !.pc = "raised",
                               !.raised = [exc |-> "TerminalEventException",
                                           args |-> <<c.type_name, e>>],
                               !.hist = Append(@, entry("terminal"))]
              [] c.verdict = "yield" ->
                    LET s1 == IF g.opts.tree
                              THEN TreeHandle(g.st, e, g.opts.ignore_missing_new_folders,
                                              g.opts.mask)
                              ELSE g.st
                    IN
                    IF s1.exc # "none"
                    THEN [g1 EXCEPT !.pc = "raised", !.st = s1,
                                    !.raised = [exc |-> s1.exc, args |-> <<>>],
                                    !.hist = Append(@, entry("raised"))]
                    ELSE [g1 EXCEPT !.pc = "yield_event", !.st = s1,
                                    !.iterEvents = @ + 1,
                                    !.hist = Append(@, entry("yielded"))]

\* the generator's variables now, with the state st of registry and kernel
Gen(st) ==
    [pc |-> pc, opts |-> opts, elapsed |-> elapsed, why |-> why, raised |-> raised,
     cur |-> cur, hist |-> hist, sinceEvent |-> sinceEvent, iterEvents |-> iterEvents,
     buffer |-> buffer, last_success_return |-> last_success_return, st |-> st]

GenBecomes(g) ==
    /\ pc' = g.pc
    /\ opts' = g.opts
    /\ elapsed' = g.elapsed
    /\ why' = g.why
    /\ raised' = g.raised
    /\ cur' = g.cur
    /\ hist' = g.hist
    /\ sinceEvent' = g.sinceEvent
    /\ iterEvents' = g.iterEvents
    /\ buffer' = g.buffer
    /\ last_success_return' = g.last_success_return
    /\ Becomes(g.st)

(***************************************************************************)
(* The steps of the generator.                                             *)
(***************************************************************************)
ElapsedCap == MaxTimeout + 1

Running == pc \in {"poll", "yield_event", "yield_none"}

RECURSIVE ReadCount(_, _)
\* how many whole records of the queue q a read of room bytes returns
ReadCount(q, room) ==
    IF q = <<>> \/ Len(Head(q)) > room THEN 0
    ELSE 1 + ReadCount(Tail(q), room - Len(Head(q)))

StartCall_NoReset(o) ==
    /\ ~Running
    /\ GenBecomes([Gen(Now) EXCEPT !.pc = "poll", !.opts = o, !.elapsed = 0,
                                   !.why = "", !.raised = NoException, !.cur = None,
                                   !.hist = <<>>, !.sinceEvent = 0, !.iterEvents = 0])
    /\ UNCHANGED <<dirs, lastOp, emitted, decVars>>

\* event_gen(...) is called and its generator started: lines 201-205
StartCall(o) ==
    /\ ~Running
    /\ GenBecomes([Gen(Now) EXCEPT !.pc = "poll", !.opts = o, !.elapsed = 0,
                                   !.why = "", !.raised = NoException, !.cur = None,
                                   !.hist = <<>>, !.sinceEvent = 0, !.iterEvents = 0,
                                   !.last_success_return = None])
    /\ UNCHANGED <<dirs, lastOp, emitted, decVars>>

\* poll reports the descriptor readable; os.read returns the queued records
\* that fit; the handler runs to its first stop: lines 210, 224-246, 144-185
PollReady ==
    /\ pc = "poll"
    /\ queue # <<>>
    /\ LET n == ReadCount(queue, READ_SIZE)
           b == Flatten(SubSeq(queue, 1, n))
           st == [Now EXCEPT !.queue = SubSeq(queue, n + 1, Len(queue))]
       IN  GenBecomes(Deliver(Gen(st), HandlerStart(buffer, b, watches_r)))
    /\ UNCHANGED <<dirs, lastOp, emitted, decVars>>

\* poll returns no event after the block duration: lines 210, 248-254
PollEmpty ==
    /\ pc = "poll"
    /\ queue = <<>>
    /\ GenBecomes(Deliver(Gen(Now), [status |-> "end", buf |-> buffer, dropped |-> <<>>]))
    /\ UNCHANGED <<dirs, lastOp, emitted, decVars>>

\* errno.EINTR, imported at line 8, and the errno of another failure of
\* epoll_wait
EINTR == 4
EBADF == 9
PollErrnos == {EBADF}

PollError_YieldsNone(g, errno) ==
    IF errno # EINTR
    THEN [g EXCEPT !.pc = "raised", !.raised = [exc |-> "IOError", args |-> <<errno>>]]
    ELSE EndOfIteration(g)

\* lines 211-220: poll raised IOError with this errno; g holds the generator's
\* variables before and the result holds them at its next stop
PollError(g, errno) ==
    IF errno # EINTR
    THEN [g EXCEPT !.pc = "raised", !.raised = [exc |-> "IOError", args |-> <<errno>>]]
    ELSE IF TimedOut(g.opts, g.elapsed)
    THEN [g EXCEPT !.pc = "done", !.why = "timeout"]
    ELSE g

\* poll is interrupted by a signal: lines 211-220
PollEINTR ==
    /\ pc = "poll"
    /\ GenBecomes(PollError(Gen(Now), EINTR))
    /\ UNCHANGED <<dirs, lastOp, emitted, decVars>>

\* poll fails with another IOError: lines 212-213
PollIOError ==
    /\ pc = "poll"
    /\ \E errno \in PollErrnos : GenBecomes(PollError(Gen(Now), errno))
    /\ UNCHANGED <<dirs, lastOp, emitted, decVars>>

\* the consumer asks for the next item after an event: the handler resumes
ResumeEvent ==
    /\ pc = "yield_event"
    /\ GenBecomes(Deliver(Gen(Now), HandlerResume(buffer, watches_r)))
    /\ UNCHANGED <<dirs, lastOp, emitted, decVars>>

\* the consumer asks for the next item after an idle marker: line 204
ResumeNone ==
    /\ pc = "yield_none"
    /\ GenBecomes([Gen(Now) EXCEPT !.pc = "poll", !.iterEvents = 0])
    /\ UNCHANGED <<dirs, lastOp, emitted, decVars>>

\* the consumer stops consuming
Abandon ==
    /\ pc \in {"yield_event", "yield_none"}
    /\ GenBecomes([Gen(Now) EXCEPT !.pc = "closed"])
    /\ UNCHANGED <<dirs, lastOp, emitted, decVars>>

\* a second passes
Tick ==
    /\ Running
    /\ elapsed < ElapsedCap
    /\ elapsed' = elapsed + 1
    /\ sinceEvent' = sinceEvent + 1
    /\ UNCHANGED <<watches, watches_r, buffer, last_success_return, dirs, kwatch,
                   nextWd, queue, lastOp, dupId, emitted, pc, opts, why, raised, cur,
                   hist, iterEvents, decVars>>

(***************************************************************************)
(* Spec: one Inotify object, its consumer and the kernel.                  *)
(***************************************************************************)
RootBytes == EncodePath(RootPath)
DirA == Append(RootBytes, NameA)
DirB == Append(RootBytes, NameB)

\* the paths the consumer names: the root, r/A, r/A/ and r/B, which is no
\* directory
ApiPaths ==
    { RootPath, Append(RootPath, NameA), Append(Append(RootPath, NameA), <<>>),
      Append(RootPath, NameB) }

\* the paths the consumer of a generator names
ConsumerPaths == { RootPath, Append(RootPath, NameA) }

Superficials == {"False", "True", "None"}

\* the records the environment injects
InjectRecords ==
    { KernelRecord(1, IN_CREATE + IN_ISDIR, 0, NameA),
      KernelRecord(2, IN_MODIFY, 0, NameB),
      KernelRecord(1, IN_UNMOUNT, 0, <<>>),
      KernelRecord(-1, IN_Q_OVERFLOW, 0, <<>>) }

\* no filter, and a filter that returns False for a directory and for an
\* unmount
Filters ==
    { [given |-> FALSE, stop |-> {}],
      [given |-> TRUE, stop |-> {"IN_ISDIR", "IN_UNMOUNT"}] }

CallOptions ==
    { [timeout_s |-> t, yield_nones |-> y, filter_predicate |-> f,
       terminal_events |-> _DEFAULT_TERMINAL_EVENTS,
       tree |-> FALSE, ignore_missing_new_folders |-> FALSE, mask |-> 0] :
         t \in {None, <<MaxTimeout>>},
         y \in BOOLEAN, f \in Filters }

Init ==
    /\ watches = <<>>
    /\ watches_r = <<>>
    /\ buffer = <<>>
    /\ last_success_return = None
    /\ dirs = {RootBytes, DirA}
    /\ kwatch = <<>>
    /\ nextWd = 1
    /\ queue = <<>>
    /\ lastOp = [op |-> "none", arg |-> 0, superficial |-> "", known |-> FALSE,
                 kcalls |-> <<>>, exc |-> "none"]
    /\ dupId = FALSE
    /\ emitted = 0
    /\ GenInit
    /\ stream = <<>>
    /\ pos = 0
    /\ out = <<>>
    /\ split = FALSE

\* a registry call of the consumer, which runs while the generator does not
ConsumerCall(st) ==
    /\ pc # "poll"
    /\ st.nextWd <= MaxWd + 1
    /\ Becomes(st)
    /\ UNCHANGED <<buffer, last_success_return, dirs, lastOp, emitted, genVars, decVars>>

ConsumerAdd(path) == ConsumerCall(add_watch(Now, path, IN_ALL_EVENTS))

ConsumerRemove(path, superficial) == ConsumerCall(remove_watch(Now, path, superficial))

\* the kernel queues a record
Inject(rec) ==
    /\ emitted < MaxEmit
    /\ emitted' = emitted + 1
    /\ queue' = Append(queue, rec)
    /\ UNCHANGED <<watches, watches_r, buffer, last_success_return, dirs, kwatch,
                   nextWd, lastOp, dupId, genVars, decVars>>

GenNext ==
    \/ PollReady
    \/ PollEmpty
    \/ PollEINTR
    \/ PollIOError
    \/ ResumeEvent
    \/ ResumeNone
    \/ Abandon

Next ==
    \/ \E o \in CallOptions : StartCall(o)
    \/ GenNext
    \/ Tick
    \/ \E p \in ConsumerPaths : ConsumerAdd(p)
    \/ \E p \in ConsumerPaths, s \in Superficials : ConsumerRemove(p, s)
    \/ \E rec \in InjectRecords : Inject(rec)

Spec == Init /\ [][Next]_vars

\* The clock advances, a poll that finds nothing returns after its block
\* duration, and the consumer asks for the next item after an idle marker.
FairSpec ==
    /\ Spec
    /\ WF_vars(Tick)
    /\ WF_vars(PollEmpty)
    /\ WF_vars(ResumeNone)

(***************************************************************************)
(* SpecSignal: the generator with a poll that is either readable or fails: *)
(* no wait ends for its block duration and the consumer goes on asking, so *)
(* that a step from the wait that reads nothing is a failure of poll.      *)
(***************************************************************************)
NextSignal ==
    \/ \E o \in CallOptions : StartCall(o)
    \/ PollReady
    \/ PollEINTR
    \/ PollIOError
    \/ ResumeEvent
    \/ ResumeNone
    \/ Tick
    \/ \E p \in ConsumerPaths : ConsumerAdd(p)
    \/ \E rec \in InjectRecords : Inject(rec)

SpecSignal == Init /\ [][NextSignal]_vars

(***************************************************************************)
(* SpecRegistry: the registry calls of one Inotify object, each recorded   *)
(* in lastOp: the call, its argument, whether the registry knew the        *)
(* argument, the kernel calls it made and the exception it raised.         *)
(***************************************************************************)
Called(st, op, arg, superficial, known) ==
    /\ st.nextWd <= MaxWd + 1
    /\ Becomes(st)
    /\ lastOp' = [op |-> op, arg |-> arg, superficial |-> superficial, known |-> known,
                  kcalls |-> st.kcalls, exc |-> st.exc]
    /\ UNCHANGED <<buffer, last_success_return, dirs, emitted, genVars, decVars>>

AddWatchCall(path) ==
    Called(add_watch(Now, path, IN_ALL_EVENTS), "add_watch", path, "",
           path \in DOMAIN watches)

RemoveWatchCall(path, superficial) ==
    Called(remove_watch(Now, path, superficial), "remove_watch", path, superficial,
           path \in DOMAIN watches)

RemoveWatchWithIdCall(wd, superficial) ==
    Called(remove_watch_with_id(Now, wd, superficial), "remove_watch_with_id", wd,
           superficial, wd \in DOMAIN watches_r)

NextRegistry ==
    \/ \E p \in ApiPaths : AddWatchCall(p)
    \/ \E p \in ApiPaths, s \in Superficials : RemoveWatchCall(p, s)
    \/ \E w \in 1..MaxWd, s \in Superficials : RemoveWatchWithIdCall(w, s)

SpecRegistry == Init /\ [][NextRegistry]_vars

(***************************************************************************)
(* The tree classes: _BaseTree.__init__ and InotifyTree.__load_tree.       *)
(***************************************************************************)
RECURSIVE BitOrFrom(_, _, _)
BitOrFrom(a, b, bit) ==
    (IF HasBit(a, bit) \/ HasBit(b, bit) THEN bit ELSE 0)
        + (IF bit >= IN_ISDIR THEN 0 ELSE BitOrFrom(a, b, bit * 2))

\* a | b
BitOr(a, b) == BitOrFrom(a, b, 1)

\* _BaseTree.__init__: self._mask
TreeMask(mask) ==
    BitOr(BitOr(BitOr(BitOr(BitOr(mask, IN_ISDIR), IN_CREATE), IN_MOVED_TO), IN_DELETE),
          IN_MOVED_FROM)

\* os.path.join(path, name): no second slash after a path that ends in one
Join(path, name) ==
    IF path # <<>> /\ path[Len(path)] = <<>>
    THEN Append(SubSeq(path, 1, Len(path) - 1), name)
    ELSE Append(path, name)

\* the entries of os.listdir(current_path) that are directories, joined to
\* current_path
ListDirs(current_path, ds) ==
    SelectSeq(<<Join(current_path, NameA), Join(current_path, NameB)>>,
              LAMBDA entry_filepath : Canon(EncodePath(entry_filepath)) \in ds)

TreeWalk_RootsOnly(q, paths, ds) == paths \o q

RECURSIVE TreeWalk(_, _, _)
\* lines 379-391: the queue q, the paths found so far
TreeWalk(q, paths, ds) ==
    IF q = <<>> THEN paths
    ELSE TreeWalk(Tail(q) \o ListDirs(Head(q), ds), Append(paths, Head(q)), ds)

RECURSIVE AddWatches(_, _, _)
\* lines 393-394; an exception of add_watch ends the loop
AddWatches(st, paths, mask) ==
    IF paths = <<>> \/ st.exc # "none" THEN st
    ELSE AddWatches(add_watch(st, Head(paths), mask), Tail(paths), mask)

\* InotifyTree.__load_tree(path) on the state st
load_tree(st, path, mask) == AddWatches(st, TreeWalk(<<path>>, <<>>, st.dirs), mask)

\* InotifyTrees.__load_trees(paths) on the state st: the walk starts from the
\* list it is given (q = paths, line 417)
load_trees(st, paths, mask) == AddWatches(st, TreeWalk(paths, <<>>, st.dirs), mask)

(***************************************************************************)
(* SpecTree: an InotifyTree on the root, the consumer of its event_gen,    *)
(* and other processes that make, remove and rename directories below the *)
(* root.  The kernel queues what the watches ask for: IN_CREATE,           *)
(* IN_DELETE, IN_MOVED_FROM and IN_MOVED_TO on the parent's watch, and     *)
(* IN_IGNORED on the watch of a directory that is removed.                 *)
(***************************************************************************)
Parent(d) == SubSeq(d, 1, Len(d) - 1)
Leaf(d) == d[Len(d)]
IsPrefix(s, d) == Len(s) <= Len(d) /\ SubSeq(d, 1, Len(s)) = s

TreeUniverse == { RootBytes, DirA, DirB, Append(DirA, NameB), Append(DirB, NameB) }

\* the queue after the kernel tells the watch of d's parent, if it asks for bit
Notify(q, kw, d, bit, cookie) ==
    IF Parent(d) \in DOMAIN kw /\ HasBit(kw[Parent(d)].mask, bit)
    THEN Append(q, KernelRecord(kw[Parent(d)].wd, bit + IN_ISDIR, cookie, Leaf(d)))
    ELSE q

TreeOptions ==
    { [timeout_s |-> None, yield_nones |-> TRUE,
       filter_predicate |-> [given |-> FALSE, stop |-> {}],
       terminal_events |-> _DEFAULT_TERMINAL_EVENTS,
       tree |-> TRUE, ignore_missing_new_folders |-> i, mask |-> TreeMask(0)] :
         i \in BOOLEAN }

InitTree ==
    /\ \E ds \in { {RootBytes}, {RootBytes, DirA} } :
          /\ dirs = ds
          /\ LET st == load_tree([watches |-> <<>>, watches_r |-> <<>>, dirs |-> ds,
                                  kwatch |-> <<>>, nextWd |-> 1, queue |-> <<>>,
                                  exc |-> "none", kcalls |-> <<>>, ret |-> 0,
                                  dup |-> FALSE],
                                 RootPath, TreeMask(0))
             IN  /\ watches = st.watches
                 /\ watches_r = st.watches_r
                 /\ kwatch = st.kwatch
                 /\ nextWd = st.nextWd
                 /\ queue = st.queue
    /\ buffer = <<>>
    /\ last_success_return = None
    /\ lastOp = [op |-> "none", arg |-> 0, superficial |-> "", known |-> FALSE,
                 kcalls |-> <<>>, exc |-> "none"]
    /\ dupId = FALSE
    /\ emitted = 0
    /\ GenInit
    /\ stream = <<>>
    /\ pos = 0
    /\ out = <<>>
    /\ split = FALSE

FsChanged ==
    /\ emitted < MaxFsOps
    /\ emitted' = emitted + 1
    /\ UNCHANGED <<watches, watches_r, buffer, last_success_return, nextWd, lastOp,
                   dupId, genVars, decVars>>

Mkdir(d) ==
    /\ d \notin dirs
    /\ Parent(d) \in dirs
    /\ dirs' = dirs \cup {d}
    /\ queue' = Notify(queue, kwatch, d, IN_CREATE, 0)
    /\ kwatch' = kwatch
    /\ FsChanged

Rmdir(d) ==
    /\ d \in dirs \ {RootBytes}
    /\ \A c \in dirs : Parent(c) # d
    /\ dirs' = dirs \ {d}
    /\ LET q1 == Notify(queue, kwatch, d, IN_DELETE, 0) IN
          queue' = IF d \in DOMAIN kwatch
                   THEN Append(q1, KernelRecord(kwatch[d].wd, IN_IGNORED, 0, <<>>))
                   ELSE q1
    /\ kwatch' = DictDel(kwatch, d)
    /\ FsChanged

\* where x is after src was renamed to dst
Moved(x, src, dst) ==
    IF IsPrefix(src, x) THEN dst \o SubSeq(x, Len(src) + 1, Len(x)) ELSE x

Rename(src, dst) ==
    /\ src \in dirs \ {RootBytes}
    /\ dst \notin dirs
    /\ Parent(dst) \in dirs
    /\ ~IsPrefix(src, dst)
    /\ \A x \in dirs : Moved(x, src, dst) \in TreeUniverse
    /\ dirs' = { Moved(x, src, dst) : x \in dirs }
    /\ kwatch' = [x \in { Moved(y, src, dst) : y \in DOMAIN kwatch } |->
                     kwatch[CHOOSE y \in DOMAIN kwatch : Moved(y, src, dst) = x]]
    /\ queue' = Notify(Notify(queue, kwatch, src, IN_MOVED_FROM, emitted + 1),
                       kwatch, dst, IN_MOVED_TO, emitted + 1)
    /\ FsChanged

NextTree ==
    \/ \E o \in TreeOptions : StartCall(o)
    \/ GenNext
    \/ \E d \in TreeUniverse : Mkdir(d)
    \/ \E d \in TreeUniverse : Rmdir(d)
    \/ \E src \in TreeUniverse, dst \in TreeUniverse : Rename(src, dst)

SpecTree == InitTree /\ [][NextTree]_vars

(***************************************************************************)
(* SpecLoad: the construction of an InotifyTree or an InotifyTrees over a  *)
(* directory tree that does not change meanwhile.  An entry of a directory *)
(* that is not in dirs is no directory.  lastOp records the constructor,   *)
(* its roots and the mask it was given.                                    *)
(***************************************************************************)
\* the directory trees: the root and any of the others with its parent
DirTrees ==
    { ds \in SUBSET TreeUniverse :
         RootBytes \in ds /\ \A d \in ds \ {RootBytes} : Parent(d) \in ds }

\* the roots a caller names: r, r/A, r/A/ and r/B
LoadRoots ==
    { RootPath, Append(RootPath, NameA), Append(Append(RootPath, NameA), <<>>),
      Append(RootPath, NameB) }

\* the root lists of an InotifyTrees: one root, the same root twice,
\* or two roots, which may overlap
LoadRootLists ==
    { <<a>> : a \in LoadRoots } \cup { <<a, b>> : a \in LoadRoots, b \in LoadRoots }

LoadMasks == { IN_ALL_EVENTS, IN_MODIFY, IN_CREATE + IN_DELETE }

InitLoad ==
    /\ dirs \in DirTrees
    /\ watches = <<>>
    /\ watches_r = <<>>
    /\ kwatch = <<>>
    /\ nextWd = 1
    /\ queue = <<>>
    /\ buffer = <<>>
    /\ last_success_return = None
    /\ lastOp = [op |-> "none", arg |-> 0, superficial |-> "", known |-> FALSE,
                 kcalls |-> <<>>, exc |-> "none"]
    /\ dupId = FALSE
    /\ emitted = 0
    /\ GenInit
    /\ stream = <<>>
    /\ pos = 0
    /\ out = <<>>
    /\ split = FALSE

Constructed(st, op, roots, mask) ==
    /\ lastOp.op = "none"
    /\ \A i \in 1..Len(roots) : Canon(EncodePath(roots[i])) \in dirs
    /\ Becomes(st)
    /\ lastOp' = [op |-> op, arg |-> [roots |-> roots, mask |-> mask],
                  superficial |-> "", known |-> FALSE,
                  kcalls |-> st.kcalls, exc |-> st.exc]
    /\ UNCHANGED <<buffer, last_success_return, dirs, emitted, genVars, decVars>>

\* InotifyTree(path, mask): lines 362-372
NewInotifyTree(path, mask) ==
    Constructed(load_tree(Now, path, TreeMask(mask)), "InotifyTree", <<path>>, mask)

\* InotifyTrees(paths, mask): lines 400-408
NewInotifyTrees(paths, mask) ==
    Constructed(load_trees(Now, paths, TreeMask(mask)), "InotifyTrees", paths, mask)

NextLoad ==
    \/ \E path \in LoadRoots, mask \in LoadMasks : NewInotifyTree(path, mask)
    \/ \E paths \in LoadRootLists, mask \in LoadMasks : NewInotifyTrees(paths, mask)

SpecLoad == InitLoad /\ [][NextLoad]_vars

(***************************************************************************)
(* SpecDecoder: _handle_inotify_event fed a stream of records in chunks.   *)
(***************************************************************************)
InitDecoder ==
    /\ \E wr \in DecoderRegistries :
          /\ watches_r = wr
          /\ watches = [p \in { wr[w] : w \in DOMAIN wr } |->
                           CHOOSE w \in DOMAIN wr : wr[w] = p]
    /\ buffer = <<>>
    /\ \E rs \in SeqsUpTo(DecoderRecords, MaxRecords) : stream = Flatten(rs)
    /\ pos = 0
    /\ out = <<>>
    /\ split = FALSE
    /\ last_success_return = <<>>
    /\ dirs = {}
    /\ kwatch = <<>>
    /\ nextWd = 1
    /\ queue = <<>>
    /\ lastOp = [op |-> "none", arg |-> 0, superficial |-> "", known |-> FALSE,
                 kcalls |-> <<>>, exc |-> "none"]
    /\ dupId = FALSE
    /\ emitted = 0
    /\ GenInit

\* One call of the handler, drained: os.read returns the next n bytes.
FeedChunk(n) ==
    /\ pos + n <= Len(stream)
    /\ LET r == HandleAll(buffer, SubSeq(stream, pos + 1, pos + n), watches_r) IN
          /\ r.status = "end"
          /\ buffer' = r.buf
          /\ out' = out \o r.events
          /\ split' = (split \/ r.buf # <<>>)
    /\ pos' = pos + n
    /\ UNCHANGED <<watches, watches_r, stream, last_success_return, dirs,
                   kwatch, nextWd, queue, lastOp, dupId, emitted>>
    /\ UNCHANGED genVars

NextDecoder == \E n \in 1..READ_SIZE : FeedChunk(n)

SpecDecoder == InitDecoder /\ [][NextDecoder]_vars

(***************************************************************************)
(* The properties.                                                         *)
(***************************************************************************)
Kinds(header) == _get_event_names(header.mask)

HasTerminalKind(header, terminal_events) ==
    \E k \in 1..Len(Kinds(header)) : Kinds(header)[k] \in terminal_events

LastDisp == hist[Len(hist)].disp

Min(S) == CHOOSE x \in S : \A y \in S : x <= y

\* the positions in e.type_names of the kinds that end the stream: those the
\* filter returns False for and the terminal ones
Decisive(e, fp, terminal_events) ==
    { i \in 1..Len(e.type_names) :
         \/ FilterStops(fp, e.type_names[i], e)
         \/ e.type_names[i] \in terminal_events }

\* C1 (as the specification states it): with no filter, every complete record
\* the decoder consumed whose mask has a terminal kind, whatever its watch
\* descriptor and whether or not that descriptor is registered, is the last
\* one the call consumed, and the call ended by raising
\* TerminalEventException with that kind and that event.
C1_TerminalPropagation ==
    ~opts.filter_predicate.given =>
       \A i \in 1..Len(hist) :
          HasTerminalKind(hist[i].header, opts.terminal_events) =>
             /\ i = Len(hist)
             /\ pc = "raised"
             /\ raised.exc = "TerminalEventException"
             /\ raised.args[1] \in opts.terminal_events
             /\ raised.args[2].header = hist[i].header

\* C2: once every byte of a stream of complete records has been read, in
\* chunks of any sizes, the events the decoder yielded over all the reads are,
\* in order, the events it yields when the whole stream arrives in one read;
\* and nothing is left in the buffer.
C2_DecoderCompleteness ==
    pos = Len(stream) =>
       /\ out = HandleAll(<<>>, stream, watches_r).events
       /\ buffer = <<>>

\* C2: a stream of which a read ended inside a record has been read to its
\* end and gave at least two events.
C2_Witness == pos = Len(stream) /\ split /\ Len(out) >= 2

\* the two maps are inverses of each other
Bijection(w, wr) ==
    /\ \A p \in DOMAIN w : w[p] \in DOMAIN wr /\ wr[w[p]] = p
    /\ \A d \in DOMAIN wr : wr[d] \in DOMAIN w /\ w[wr[d]] = d

RemoveOps == {"remove_watch", "remove_watch_with_id"}

\* C3: as long as the kernel has not returned an id the registry holds under
\* another path, the path-to-id map and the id-to-path map are exact inverses
\* after any sequence of add_watch, remove_watch and remove_watch_with_id; a
\* path just added maps to its id and back; and after a removal with
\* superficial False or True of a registered path neither the path nor the id
\* it had is in either map.
C3_RegistryBijection ==
    /\ [](~dupId => Bijection(watches, watches_r))
    /\ [][ ~dupId' =>
             /\ (lastOp'.op = "add_watch" /\ lastOp'.exc = "none") =>
                   /\ lastOp'.arg \in DOMAIN watches'
                   /\ watches_r'[watches'[lastOp'.arg]] = lastOp'.arg
             /\ (lastOp'.op = "remove_watch" /\ lastOp'.superficial # "None"
                   /\ lastOp'.arg \in DOMAIN watches) =>
                   /\ lastOp'.arg \notin DOMAIN watches'
                   /\ watches[lastOp'.arg] \notin DOMAIN watches_r'
             /\ (lastOp'.op = "remove_watch_with_id" /\ lastOp'.superficial # "None"
                   /\ lastOp'.arg \in DOMAIN watches_r) =>
                   /\ lastOp'.arg \notin DOMAIN watches_r'
                   /\ watches_r[lastOp'.arg] \notin DOMAIN watches'
         ]_vars

\* C3: two paths were added under two ids, and one of them has just been
\* removed, kernel watch included.
C3_Witness ==
    /\ ~dupId
    /\ nextWd = 3
    /\ Cardinality(DOMAIN watches) = 1
    /\ lastOp.op \in RemoveOps
    /\ lastOp.superficial = "False"
    /\ lastOp.known
    /\ lastOp.exc = "none"

\* C4: when the tree generator has processed a directory event and yields it,
\* the registry holds the event's path if the event is IN_CREATE or
\* IN_MOVED_TO and the path exists, and holds it in neither map if the
\* event is IN_DELETE or IN_MOVED_FROM.
C4_TreeStateInvariant ==
    [][ (hist' # hist /\ pc' = "yield_event"
           /\ HasBit(cur'[1].header.mask, IN_ISDIR)) =>
          LET e == cur'[1]
              m == e.header.mask
              full_path == Append(e.path, e.filename)
          IN  /\ ((HasBit(m, IN_CREATE) \/ HasBit(m, IN_MOVED_TO))
                     /\ EncodePath(full_path) \in dirs) =>
                    full_path \in DOMAIN watches'
              /\ (HasBit(m, IN_DELETE) \/ HasBit(m, IN_MOVED_FROM)) =>
                    /\ full_path \notin DOMAIN watches'
                    /\ \A w \in DOMAIN watches_r' : watches_r'[w] # full_path
      ]_vars

\* C4: r/A and then r/A/B were created and watched, and the event of the
\* deletion of r/A/B has just been processed: r/A is watched, r/A/B is not.
C4_Witness ==
    /\ pc = "yield_event"
    /\ HasBit(cur[1].header.mask, IN_DELETE)
    /\ Append(cur[1].path, cur[1].filename) = Append(Append(RootPath, NameA), NameB)
    /\ nextWd = 4
    /\ Append(RootPath, NameA) \in DOMAIN watches
    /\ Append(Append(RootPath, NameA), NameB) \notin DOMAIN watches
    /\ Len(hist) >= 3

\* the directory d has a kernel watch that the registry holds under d's path
Watched(d) ==
    /\ d \in DOMAIN kwatch
    /\ \E p \in DOMAIN watches :
          /\ Canon(EncodePath(p)) = d
          /\ watches[p] = kwatch[d].wd
          /\ watches[p] \in DOMAIN watches_r

\* the tree generator runs and no kernel record is left to process
Quiescent == Running /\ queue = <<>> /\ Len(buffer) < _STRUCT_HEADER_LENGTH

\* C5 (as the specification states it): whenever the tree generator has
\* processed every pending kernel event, every directory that exists under
\* the root is watched.
C5_TreeCompleteness == Quiescent => \A d \in dirs : Watched(d)

\* C6: a record for which the filter returned False is the last one of the
\* call, the call ended normally without yielding it, and last_success_return
\* is the pair of a kind the filter returns False for and that event; while a
\* call runs and after a call ended for timeout last_success_return is None.
C6_FilterStop ==
    /\ \A i \in 1..Len(hist) :
          hist[i].disp = "filter" =>
             /\ i = Len(hist)
             /\ pc = "done" /\ why = "filter" /\ raised = NoException
             /\ cur # None /\ cur[1].header = hist[i].header
             /\ \E k \in 1..Len(cur[1].type_names) :
                   /\ FilterStops(opts.filter_predicate, cur[1].type_names[k], cur[1])
                   /\ last_success_return = <<cur[1].type_names[k], cur[1]>>
    /\ (pc = "done" /\ why = "filter") => (hist # <<>> /\ LastDisp = "filter")
    /\ (pc = "done" /\ why = "timeout") => last_success_return = None
    /\ Running => last_success_return = None

\* C6: a call ended at a directory event the filter returned False for, after
\* it had yielded an earlier event.
C6_Witness ==
    /\ pc = "done" /\ why = "filter"
    /\ Len(hist) = 2 /\ hist[1].disp = "yielded"
    /\ last_success_return # None
    /\ last_success_return[1] = "IN_ISDIR"

\* C7 (as the specification states it): going through an event's kinds in
\* order, a terminal kind aborts the stream with TerminalEventException and
\* the filter is consulted only for a kind that is not terminal.
C7_TerminalPrecedence ==
    (hist # <<>> /\ LastDisp \in {"filter", "terminal", "yielded"}) =>
       LET e == cur[1]
           D == Decisive(e, opts.filter_predicate, opts.terminal_events)
       IN  IF D = {} THEN LastDisp = "yielded"
           ELSE LET K == e.type_names[Min(D)] IN
                IF K \in opts.terminal_events
                THEN /\ LastDisp = "terminal" /\ pc = "raised"
                     /\ raised = [exc |-> "TerminalEventException", args |-> <<K, e>>]
                ELSE /\ LastDisp = "filter" /\ pc = "done" /\ why = "filter"
                     /\ last_success_return = <<K, e>>

\* C7 (amended): going through an event's kinds in order, the filter is
\* consulted first for every kind, a terminal one included: the stream ends
\* normally at the first kind the filter returns False for, and aborts with
\* TerminalEventException at the first terminal kind the filter did not
\* return False for (or with no filter given), whichever kind comes first.
C7_FilterBeforeTerminal ==
    (hist # <<>> /\ LastDisp \in {"filter", "terminal", "yielded"}) =>
       LET e == cur[1]
           D == Decisive(e, opts.filter_predicate, opts.terminal_events)
       IN  IF D = {} THEN LastDisp = "yielded"
           ELSE LET K == e.type_names[Min(D)] IN
                IF FilterStops(opts.filter_predicate, K, e)
                THEN /\ LastDisp = "filter" /\ pc = "done" /\ why = "filter"
                     /\ last_success_return = <<K, e>>
                     /\ raised = NoException
                ELSE /\ LastDisp = "terminal" /\ pc = "raised"
                     /\ raised = [exc |-> "TerminalEventException", args |-> <<K, e>>]

\* C7: the filter returned False for the terminal kind of an unmount event,
\* and the call ended normally.
C7_Witness ==
    /\ pc = "done" /\ why = "filter"
    /\ last_success_return # None
    /\ last_success_return[1] = "IN_UNMOUNT"
    /\ raised = NoException

\* nothing is queued for a running generator that has a timeout and is not
\* in the middle of a batch
AwaitingTimeout ==
    /\ pc \in {"poll", "yield_none"}
    /\ opts.timeout_s # None
    /\ queue = <<>>

\* C8: a call ends for timeout only if it has a timeout and more than that
\* many seconds have passed since the decoder last yielded an event to it (or
\* since it began); and a call with a timeout to which no further record
\* arrives ends for timeout, unless the consumer stops or poll fails first.
C8_Timeout ==
    /\ []((pc = "done" /\ why = "timeout") =>
             (opts.timeout_s # None /\ sinceEvent > opts.timeout_s[1]))
    /\ (AwaitingTimeout ~>
           \/ pc = "done" /\ why = "timeout" /\ raised = NoException
           \/ pc = "closed"
           \/ pc = "raised" /\ raised.exc = "IOError"
           \/ queue # <<>>)

\* C8: a call that had yielded an event and idle markers ended for timeout.
C8_Witness ==
    /\ pc = "done" /\ why = "timeout"
    /\ opts.yield_nones = TRUE
    /\ hist # <<>> /\ LastDisp = "yielded"
    /\ sinceEvent > opts.timeout_s[1]

\* C9 (as the specification states it): an idle marker is yielded only with
\* yield_nones true and only for an iteration in which no event was
\* delivered.
C9_IdleOnlyWhenIdle ==
    pc = "yield_none" => (opts.yield_nones = TRUE /\ iterEvents = 0)

\* C9 (amended): an idle marker is yielded only with yield_nones true; and
\* with yield_nones true a running generator goes on to its next poll only
\* from an idle marker: every iteration that reaches its end without the
\* timeout ending the stream yields one, also an iteration in which events
\* were delivered, and only an iteration cut short by EINTR yields none.
C9_IdleEveryIteration ==
    /\ [](pc = "yield_none" => opts.yield_nones = TRUE)
    /\ [][ (opts.yield_nones = TRUE /\ pc \in {"poll", "yield_event"} /\ pc' = "poll") =>
              (pc = "poll" /\ Len(queue') >= Len(queue) /\ hist' = hist)
         ]_vars

\* C9: an idle marker is yielded at the end of an iteration in which an event
\* was delivered.
C9_Witness == pc = "yield_none" /\ iterEvents > 0 /\ opts.yield_nones = TRUE

\* C10: add_watch of a path the registry holds, and remove_watch or
\* remove_watch_with_id of a path or an id it does not hold, raise nothing,
\* call the kernel not at all and leave both maps as they were.
C10_DuplicateNoOp ==
    [][ ( \/ lastOp'.op = "add_watch" /\ lastOp'.arg \in DOMAIN watches
          \/ lastOp'.op = "remove_watch" /\ lastOp'.arg \notin DOMAIN watches
          \/ lastOp'.op = "remove_watch_with_id" /\ lastOp'.arg \notin DOMAIN watches_r ) =>
           /\ lastOp'.exc = "none"
           /\ lastOp'.kcalls = <<>>
           /\ watches' = watches
           /\ watches_r' = watches_r
           /\ kwatch' = kwatch
           /\ queue' = queue
      ]_vars

\* C10: add_watch has just been called for a path the registry held.
C10_Witness ==
    /\ lastOp.op = "add_watch"
    /\ lastOp.known
    /\ lastOp.exc = "none"
    /\ lastOp.kcalls = <<>>
    /\ lastOp.arg \in DOMAIN watches

\* buf starts with a record that is not all there: less than a header, or a
\* header whose name field is not all there
Incomplete(buf) ==
    /\ buf # <<>>
    /\ \/ Len(buf) < _STRUCT_HEADER_LENGTH
       \/ Len(buf) < _STRUCT_HEADER_LENGTH
                        + Unpack(SubSeq(buf, 1, _STRUCT_HEADER_LENGTH)).len

IsSuffix(s, t) == Len(s) <= Len(t) /\ SubSeq(t, Len(t) - Len(s) + 1, Len(t)) = s

\* C11: a call of the decoder leaves in the buffer a suffix of the bytes it
\* had (the buffer and the bytes read); and when these start with an
\* incomplete record, the call yields no event and leaves all of them, the
\* header included, in the buffer.
C11_PartialSafety ==
    [][ LET pending == buffer \o SubSeq(stream, pos + 1, pos') IN
        /\ IsSuffix(buffer', pending)
        /\ Incomplete(pending) => (out' = out /\ buffer' = pending)
      ]_vars

\* C11: a read has ended after the header of a record and before the end of
\* its name: the header is in the buffer and no event was yielded.
C11_Witness ==
    /\ pos > 0
    /\ Len(buffer) >= _STRUCT_HEADER_LENGTH
    /\ Incomplete(buffer)
    /\ buffer = SubSeq(stream, 1, pos)
    /\ out = <<>>

\* C12 (as the specification states it): after any sequence of add_watch and
\* remove calls, whatever ids the kernel returns, no two registered paths
\* share an id and the id-to-path map has exactly one entry for each
\* registered path.
C12_RegistryUniqueness ==
    /\ \A p \in DOMAIN watches : \A q \in DOMAIN watches :
          watches[p] = watches[q] => p = q
    /\ Cardinality(DOMAIN watches_r) = Cardinality(DOMAIN watches)

\* the step is one in which the tree generator took an event from the
\* decoder and processed it: the event is cur'[1]
TreeProcessed ==
    /\ Len(hist') > Len(hist)
    /\ hist'[Len(hist')].disp \in {"yielded", "raised"}
    /\ HasBit(cur'[1].header.mask, IN_ISDIR)

IsNewDir(e) == HasBit(e.header.mask, IN_CREATE) \/ HasBit(e.header.mask, IN_MOVED_TO)

FullPath(e) == Append(e.path, e.filename)

C14_SuperficialNone ==
    (lastOp.op = "remove_watch" /\ lastOp.superficial = "None" /\ lastOp.known) =>
       /\ lastOp.arg \in DOMAIN watches
       /\ watches[lastOp.arg] \in DOMAIN watches_r
       /\ lastOp.kcalls = <<[call |-> "rm_watch", wd |-> watches[lastOp.arg]]>>

\* C15: when the tree generator processes a directory IN_MOVED_FROM event
\* for a registered path whose kernel watch is gone, so that the kernel's
\* rm_watch fails, nothing is raised, the path and its id leave both maps,
\* and the event is yielded by a generator that goes on.
C15_MovedFromRace ==
    [][ (TreeProcessed
           /\ HasBit(cur'[1].header.mask, IN_MOVED_FROM)
           /\ ~HasBit(cur'[1].header.mask, IN_DELETE)
           /\ FullPath(cur'[1]) \in DOMAIN watches
           /\ watches[FullPath(cur'[1])] \in DOMAIN watches_r
           /\ watches[FullPath(cur'[1])] \notin KernelWds(kwatch)) =>
          /\ pc' = "yield_event"
          /\ raised' = NoException
          /\ hist'[Len(hist')].disp = "yielded"
          /\ FullPath(cur'[1]) \notin DOMAIN watches'
          /\ watches[FullPath(cur'[1])] \notin DOMAIN watches_r'
          /\ kwatch' = kwatch
      ]_vars

\* C15: r/A, watched under id 2, was renamed and then removed before the
\* generator read anything; the IN_MOVED_FROM of r/A was processed with the
\* kernel watch 2 gone, and the event after it has been yielded too.
C15_Witness ==
    /\ pc = "yield_event"
    /\ Len(hist) = 2 /\ queue = <<>> /\ nextWd = 3
    /\ hist[1].disp = "yielded" /\ HasBit(hist[1].header.mask, IN_MOVED_FROM)
    /\ hist[2].disp = "yielded" /\ HasBit(hist[2].header.mask, IN_MOVED_TO)
    /\ 2 \notin KernelWds(kwatch)
    /\ 2 \notin DOMAIN watches_r
    /\ Append(RootPath, NameA) \notin DOMAIN watches

RECURSIVE RecordHeaders(_)
\* the headers of the complete records bytes starts with, in order
RecordHeaders(bytes) ==
    IF bytes = <<>> \/ Incomplete(bytes) THEN <<>>
    ELSE LET h == Unpack(SubSeq(bytes, 1, _STRUCT_HEADER_LENGTH)) IN
         <<h>> \o RecordHeaders(SubSeq(bytes, _STRUCT_HEADER_LENGTH + h.len + 1,
                                        Len(bytes)))

RECURSIVE RecordsLength(_)
\* the bytes the records of these headers take
RecordsLength(hs) ==
    IF hs = <<>> THEN 0
    ELSE _STRUCT_HEADER_LENGTH + Head(hs).len + RecordsLength(Tail(hs))

Registered(h) == h.wd \in DOMAIN watches_r

\* C16: of the complete records read so far, the decoder has yielded, in
\* order, exactly those whose watch descriptor is registered, each under
\* its registered path: a record of an unregistered descriptor is consumed
\* without an event and the records after it are decoded all the same; the
\* buffer holds what follows the last complete record; and no call of the
\* decoder raises.
C16_UnknownWdDropped ==
    /\ [i \in 1..Len(out) |-> out[i].header]
          = SelectSeq(RecordHeaders(SubSeq(stream, 1, pos)), Registered)
    /\ \A i \in 1..Len(out) : out[i].path = watches_r[out[i].header.wd]
    /\ buffer = SubSeq(stream, RecordsLength(RecordHeaders(SubSeq(stream, 1, pos))) + 1,
                       pos)
    /\ \A n \in 1..(Len(stream) - pos) :
          HandleAll(buffer, SubSeq(stream, pos + 1, pos + n), watches_r).status = "end"

\* C16: a stream that starts with a record of an unregistered descriptor and
\* goes on with a record of a registered one was read in one piece: the
\* second record's event is the one event yielded.
C16_Witness ==
    /\ pos = Len(stream) /\ ~split
    /\ Len(RecordHeaders(stream)) = 2
    /\ ~Registered(RecordHeaders(stream)[1])
    /\ Registered(RecordHeaders(stream)[2])
    /\ Len(out) = 1
    /\ out[1].header = RecordHeaders(stream)[2]


\* C17: whenever the generator is blocked at the readiness wait, the pending
\* buffer holds no complete record: it is empty or its front record lacks
\* bytes still to be read from the kernel.
C17_NoCompleteRecordAtWait ==
    pc = "poll" => (buffer = <<>> \/ Incomplete(buffer))


\* C18: a failure of poll with EINTR never raises; it ends the call, for
\* timeout and normally, only with a timeout that has elapsed since the last
\* event, and otherwise the generator stays at the wait with nothing
\* yielded; a failure with another errno is raised to the consumer as it is.
C18_SignalInterrupt ==
    [][ (pc = "poll" /\ queue' = queue /\ emitted' = emitted /\ elapsed' = elapsed) =>
          /\ hist' = hist /\ buffer' = buffer
          /\ watches' = watches /\ watches_r' = watches_r /\ kwatch' = kwatch
          /\ \/ /\ pc' = "done" /\ why' = "timeout" /\ raised' = NoException
                /\ opts.timeout_s # None /\ sinceEvent > opts.timeout_s[1]
             \/ /\ pc' = "raised" /\ raised'.exc = "IOError"
                /\ raised'.args # <<EINTR>> ]_vars

\* C18: a call to which nothing was ever queued ended for timeout at an
\* interrupted wait.
C18_Witness ==
    /\ pc = "done" /\ why = "timeout" /\ raised = NoException
    /\ hist = <<>> /\ emitted = 0 /\ queue = <<>>
    /\ sinceEvent > opts.timeout_s[1]


\* what the tree generator does to registry and kernel for the event it
\* processes in this step, and the kernel calls it makes
Handled == TreeHandle(Now, cur'[1], opts.ignore_missing_new_folders, opts.mask)

\* C19: for a directory IN_DELETE event the tree generator takes the path
\* out of the registry and makes no rm_watch call, so that the kernel's
\* watches stay as they are; for a directory IN_MOVED_FROM event without
\* IN_DELETE, for a path registered in both maps, it takes the path and its
\* id out of the registry and calls rm_watch exactly once, on that id, which
\* the kernel then no longer holds.
C19_RemovalMode ==
    [][ TreeProcessed =>
          /\ HasBit(cur'[1].header.mask, IN_DELETE) =>
                /\ FullPath(cur'[1]) \notin DOMAIN watches'
                /\ \A i \in 1..Len(Handled.kcalls) : Handled.kcalls[i].call # "rm_watch"
                /\ kwatch' = kwatch
          /\ (/\ HasBit(cur'[1].header.mask, IN_MOVED_FROM)
              /\ ~HasBit(cur'[1].header.mask, IN_DELETE)
              /\ FullPath(cur'[1]) \in DOMAIN watches
              /\ watches[FullPath(cur'[1])] \in DOMAIN watches_r) =>
                /\ FullPath(cur'[1]) \notin DOMAIN watches'
                /\ watches[FullPath(cur'[1])] \notin DOMAIN watches_r'
                /\ Handled.kcalls =
                      <<[call |-> "rm_watch", wd |-> watches[FullPath(cur'[1])]]>>
                /\ watches[FullPath(cur'[1])] \notin KernelWds(kwatch')
      ]_vars

\* C19: r/A was renamed and the directory then removed; the IN_MOVED_FROM was
\* processed while the kernel still held the watch, which rm_watch took away,
\* and the IN_DELETE of the new name has been processed too: only the root is
\* left in the registry and in the kernel.
C19_Witness ==
    /\ pc = "yield_event" /\ LastDisp = "yielded"
    /\ HasBit(cur[1].header.mask, IN_DELETE) /\ HasBit(cur[1].header.mask, IN_ISDIR)
    /\ \E i \in 1..Len(hist) :
          /\ hist[i].disp = "yielded"
          /\ HasBit(hist[i].header.mask, IN_MOVED_FROM)
          /\ \E j \in 1..Len(hist) :
                /\ hist[j].disp = "dropped"
                /\ HasBit(hist[j].header.mask, IN_IGNORED)
                /\ hist[j].header.wd = 2
    /\ DOMAIN watches = {RootPath}
    /\ KernelWds(kwatch) = {1}


\* the directories at or below one of the roots
Reachable(roots) ==
    { d \in dirs : \E i \in 1..Len(roots) : IsPrefix(Canon(EncodePath(roots[i])), d) }

\* the bits of a 32-bit mask up to IN_ISDIR
MaskBits == { 2^k : k \in 0..30 }

NeededBits == { IN_ISDIR, IN_CREATE, IN_MOVED_TO, IN_DELETE, IN_MOVED_FROM }

\* C20: after InotifyTree(root) or InotifyTrees(roots) was constructed over
\* a directory tree, nothing was raised; the paths of the registry name
\* exactly the directories at or below the roots, each root by the name it
\* was given; each path's id is the id of the kernel's watch on its
\* directory; the kernel watches exactly these directories, each with the
\* bits of the requested mask and IN_ISDIR, IN_CREATE, IN_MOVED_TO, IN_DELETE
\* and IN_MOVED_FROM and no other.
C20_TreeLoading ==
    lastOp.op \in {"InotifyTree", "InotifyTrees"} =>
       LET roots == lastOp.arg.roots
           mask == lastOp.arg.mask
       IN
       /\ lastOp.exc = "none"
       /\ { Canon(EncodePath(p)) : p \in DOMAIN watches } = Reachable(roots)
       /\ \A i \in 1..Len(roots) : roots[i] \in DOMAIN watches
       /\ DOMAIN kwatch = Reachable(roots)
       /\ \A p \in DOMAIN watches :
             /\ kwatch[Canon(EncodePath(p))].wd = watches[p]
             /\ watches[p] \in DOMAIN watches_r
       /\ \A d \in DOMAIN kwatch : \A bit \in MaskBits :
             HasBit(kwatch[d].mask, bit) <=> (HasBit(mask, bit) \/ bit \in NeededBits)

\* C20: an InotifyTrees was constructed from two roots of which the second
\* lies below the first, over a tree with a directory two levels down and a
\* directory outside both roots.
C20_Witness ==
    /\ lastOp.op = "InotifyTrees"
    /\ lastOp.arg.roots = <<Append(RootPath, NameA), Append(Append(RootPath, NameA), <<>>)>>
    /\ lastOp.arg.mask = IN_MODIFY
    /\ dirs = {RootBytes, DirA, DirB, Append(DirA, NameB)}
    /\ Cardinality(DOMAIN kwatch) = 2
    /\ Append(Append(RootPath, NameA), NameB) \in DOMAIN watches

====
